---- MODULE Spec2Model ----
(***************************************************************************)
(* Model of litstudy/network.py: the graph builders                        *)
(*   build_base_network, build_citation_network, build_cocitation_network, *)
(*   build_coupling_network and build_coauthor_network.                    *)
(*                                                                         *)
(* A document set is a sequence of documents; the document at position k   *)
(* of the sequence (1-based here) is node k-1 of the graph (0-based, as    *)
(* enumerate() numbers it).  Python dicts keep insertion order, so the     *)
(* dicts whose order the code depends on (strength, count, edges) are      *)
(* sequences of <<key, value>> pairs.  The plotting functions are not      *)
(* modelled.  The builders are called without the colors keyword; colors   *)
(* are exercised on build_base_network itself.                             *)
(***************************************************************************)
EXTENDS Integers, Sequences, FiniteSets, TLC

\* ------------------------------------------------------------------ bounds
MaxDocs == 2
MaxRefs == 2
MaxAuthors == 2
MaxEdgesArg == 2
MaxAuthorsArg == 2

\* Reference lists of the co-citation runs may be one longer, so that a list
\* can name two documents and repeat one of them.
MaxCitedRefs == MaxRefs + 1
\* Colour sequences may be one longer than the longest document set.
MaxColors == MaxDocs + 1

\* --------------------------------------------------------------- constants
\* Python's None, for values that are otherwise natural numbers.
None == -1
\* build_coupling_network(docs, max_edges=1000, ...)
DefaultMaxEdges == 1000

VARIABLES
    docs,       \* the DocumentSet the call is made on
    pc,         \* "idle" | "scan" (inside build_coupling_network) | "done"
    call,       \* the call made: builder name and arguments
    g,          \* the graph under construction / returned
    mapping,    \* the identity mapping (DocumentMapping, or the author dict)
    err,        \* "none" | "AssertionError" | "ZeroDivisionError"
    strength,   \* the strength dict (edges dict of the co-author builder)
    n,          \* build_coupling_network: next free node index
    doc_refs,   \* build_coupling_network: list of reference-index sets
    refs,       \* build_coupling_network: indices of the current document
    di,         \* build_coupling_network: position of the outer loop
    ri,         \* build_coupling_network: position of the inner loop
    i,          \* build_coupling_network: local i after the last inner step
    resolved    \* history: the <<ref, index>> pairs appended to refs so far

vars == <<docs, pc, call, g, mapping, err, strength, n, doc_refs, refs, di, ri,
          i, resolved>>

\* ------------------------------------------------------------ small helpers
Min(a, b) == IF a <= b THEN a ELSE b
Max(a, b) == IF a >= b THEN a ELSE b
EmptyMap == [x \in {} |-> x]
Range(s) == {s[k] : k \in DOMAIN s}
SeqsUpTo(S, len) == UNION {[1..l -> S] : l \in 0..len}

\* ---------------------------------------------------------------- documents
DocId(k) == <<"doc", k>>
OutsideIds == {<<"ext", 0>>}
CouplingOutsideIds == {<<"ext", 0>>, <<"ext", 1>>}
Names == {"", "ann", "bob"}
Columns == {"year"}
ColorValues == {<<"float", 0>>, <<"float", 1>>, <<"int", 0>>, <<"int", 1>>}
DefaultData == [c \in Columns |-> <<"int", 0>>]

Document(k, references, authors, data) ==
    [id |-> DocId(k), title |-> <<"title", k>>, references |-> references,
     authors |-> authors, data |-> data]

NoColors == [kind |-> "none", name |-> "", seq |-> <<>>]
NoCall == [name |-> "none", directed |-> FALSE, colors |-> NoColors,
           node_props |-> {}, max_edges |-> None, max_authors |-> None]

\* ---------------------------------------------------- the identity mapping
MappingAdd(m, id, v) == IF id \in DOMAIN m THEN m ELSE (id :> v) @@ m
MappingGet(m, id) == IF id \in DOMAIN m THEN m[id] ELSE None

\* ------------------------------------------------------------------- graphs
EmptyGraph(directed) == [directed |-> directed, nodes |-> EmptyMap, edges |-> EmptyMap]

AddNode(gr, v, attrs) ==
    [gr EXCEPT !.nodes = IF v \in DOMAIN gr.nodes
                         THEN [gr.nodes EXCEPT ![v] = attrs @@ gr.nodes[v]]
                         ELSE (v :> attrs) @@ gr.nodes]

EdgeKey(gr, u, v) == IF gr.directed THEN <<u, v>> ELSE <<Min(u, v), Max(u, v)>>

\* networkx add_edge: creates missing endpoints, then sets / updates the
\* attributes of the edge.
AddEdge(gr, u, v, attrs) ==
    LET g1 == AddNode(AddNode(gr, u, EmptyMap), v, EmptyMap)
        key == EdgeKey(gr, u, v)
    IN  [g1 EXCEPT !.edges = IF key \in DOMAIN g1.edges
                             THEN [g1.edges EXCEPT ![key] = attrs @@ g1.edges[key]]
                             ELSE (key :> attrs) @@ g1.edges]

\* Adds the edges of a sequence of <<u, v, attrs>> in order.
RECURSIVE AddEdges(_, _)
AddEdges(gr, es) ==
    IF es = <<>> THEN gr
    ELSE AddEdges(AddEdge(gr, es[1][1], es[1][2], es[1][3]), Tail(es))

RECURSIVE Concat(_)
Concat(ss) == IF ss = <<>> THEN <<>> ELSE ss[1] \o Concat(Tail(ss))

\* ------------------------------------------------------ build_base_network
NodeAttrs(doc, node_props) ==
    ("title" :> doc.title) @@ ("doc" :> doc.id) @@ [p \in node_props |-> doc.data[p]]

RECURSIVE AddDocNodes(_, _, _, _)
AddDocNodes(gr, ds, node_props, k) ==
    IF k > Len(ds) THEN gr
    ELSE AddDocNodes(AddNode(gr, k - 1, NodeAttrs(ds[k], node_props)), ds, node_props, k + 1)

RECURSIVE AddDocIds(_, _, _)
AddDocIds(m, ds, k) ==
    IF k > Len(ds) THEN m ELSE AddDocIds(MappingAdd(m, ds[k].id, k - 1), ds, k + 1)

\* if isinstance(colors, str): colors = docs[colors] else: colors = list(colors)
ColorsOf(ds, colors) ==
    IF colors.kind = "column" THEN [k \in 1..Len(ds) |-> ds[k].data[colors.name]]
    ELSE colors.seq

\* if colors is not None and docs:
ColorsApply(ds, colors) == colors.kind # "none" /\ Len(ds) > 0

ColorsNotLonger(cs, ds) == 1 <= Len(cs) /\ Len(cs) <= Len(ds)
\* assert len(colors) == len(docs)
ColorsLenOk(cs, ds) == Len(cs) = Len(ds)

AllFloat(cs) == \A k \in DOMAIN cs : cs[k][1] = "float"
SeqMin(cs) == CHOOSE v \in {c[2] : c \in Range(cs)} : \A c \in Range(cs) : v <= c[2]
SeqMax(cs) == CHOOSE v \in {c[2] : c \in Range(cs)} : \A c \in Range(cs) : v >= c[2]

\* cmap(float(c - begin) / (end - begin)): the quotient is kept as a fraction.
Normalized(c, begin, end) == <<"cmap", c[2] - begin, end - begin>>

\* groups = dict((c, i) for i, c in enumerate(sorted(set(colors)))); equal
\* numbers are one group whatever their type.
GroupOf(c, cs) == Cardinality({v \in {d[2] : d \in Range(cs)} : v < c[2]})
Categorical(c, cs) == <<"palette", GroupOf(c, cs), Cardinality({d[2] : d \in Range(cs)})>>

RECURSIVE SetColors(_, _, _)
SetColors(gr, cols, k) ==
    IF k > Len(cols) THEN gr
    ELSE SetColors([gr EXCEPT !.nodes[k - 1] = ("color" :> cols[k]) @@ @], cols, k + 1)

\* The result of build_base_network: [err, g, mapping].
BaseNetwork(ds, directed, colors, node_props) ==
    LET g0 == AddDocNodes(EmptyGraph(directed), ds, node_props, 1)
        m0 == AddDocIds(EmptyMap, ds, 1)
        cs == ColorsOf(ds, colors)
        raised(e) == [err |-> e, g |-> EmptyGraph(directed), mapping |-> EmptyMap]
    IN  IF ~ColorsApply(ds, colors) THEN [err |-> "none", g |-> g0, mapping |-> m0]
        ELSE IF ~ColorsLenOk(cs, ds) THEN raised("AssertionError")
        ELSE IF AllFloat(cs)
             THEN IF SeqMax(cs) = SeqMin(cs) THEN raised("ZeroDivisionError")
                  ELSE [err |-> "none", mapping |-> m0,
                        g |-> SetColors(g0, [k \in DOMAIN cs |->
                                  Normalized(cs[k], SeqMin(cs), SeqMax(cs))], 1)]
        ELSE [err |-> "none", mapping |-> m0,
              g |-> SetColors(g0, [k \in DOMAIN cs |-> Categorical(cs[k], cs)], 1)]

\* -------------------------------------------------- build_citation_network
\* [j for ref in doc.references or [] if (j := mapping.get(ref)) is not None]
ResolvedRefs(m, references) ==
    SelectSeq([p \in DOMAIN references |-> MappingGet(m, references[p])],
              LAMBDA j : j # None)

CitationEdgeRev(src, dst) == <<dst, src, EmptyMap>>
\* g.add_edge(i, j)
CitationEdge(src, dst) == <<src, dst, EmptyMap>>

CitationEdges(ds, m) ==
    Concat([k \in DOMAIN ds |->
              LET js == ResolvedRefs(m, ds[k].references)
              IN  [p \in DOMAIN js |-> CitationEdge(k - 1, js[p])]])

\* ------------------------------------------------------------ initial state
Locals ==
    /\ pc = "idle" /\ call = NoCall /\ g = EmptyGraph(FALSE) /\ mapping = EmptyMap
    /\ err = "none" /\ strength = <<>> /\ n = 0 /\ doc_refs = <<>> /\ refs = <<>>
    /\ di = 1 /\ ri = 1 /\ i = None /\ resolved = {}

\* Document sets with reference lists over the documents' own ids and ids.
InitRefs(outside, maxrefs) ==
    /\ \E nd \in 0..MaxDocs :
         \E rf \in [1..nd -> SeqsUpTo({DocId(k) : k \in 0..nd-1} \cup outside, maxrefs)] :
           docs = [k \in 1..nd |-> Document(k - 1, rf[k], <<>>, DefaultData)]
    /\ Locals

done(name) == pc = "done" /\ call.name = name

\* ------------------------------------------------------------------ actions
BuildCitation ==
    /\ pc = "idle"
    /\ LET b == BaseNetwork(docs, TRUE, NoColors, Columns)
       IN  /\ g' = AddEdges(b.g, CitationEdges(docs, b.mapping))
           /\ mapping' = b.mapping
           /\ err' = b.err
    /\ call' = [NoCall EXCEPT !.name = "citation", !.directed = TRUE, !.node_props = Columns]
    /\ pc' = "done"
    /\ UNCHANGED <<docs, strength, n, doc_refs, refs, di, ri, i, resolved>>

InitCitation == InitRefs(OutsideIds, MaxRefs)
NextCitation == BuildCitation
SpecCitation == InitCitation /\ [][NextCitation]_vars

\* C6: build_citation_network returns a directed graph with exactly one node
\* per document (index = position), the mapping sends each document id to its
\* position, an edge i -> j exists iff document i's reference list holds an id
\* that the mapping resolves to node j, references to unknown ids add no node
\* and no edge and raise nothing, and no edge carries a weight.
C6_CitationEdges ==
    done("citation") =>
        LET nodes == 0..(Len(docs) - 1) IN
        /\ err = "none"
        /\ g.directed
        /\ DOMAIN g.nodes = nodes
        /\ \A k \in nodes : g.nodes[k]["doc"] = docs[k + 1].id
        /\ DOMAIN mapping = {docs[k].id : k \in DOMAIN docs}
        /\ \A k \in nodes : mapping[docs[k + 1].id] = k
        /\ DOMAIN g.edges \subseteq nodes \X nodes
        /\ \A a \in nodes, b \in nodes :
             <<a, b>> \in DOMAIN g.edges <=>
               \E r \in Range(docs[a + 1].references) :
                  r \in DOMAIN mapping /\ mapping[r] = b
        /\ \A e \in DOMAIN g.edges : DOMAIN g.edges[e] = {}

\* A document cites a known document and also an id outside the set.
C6_Witness ==
    /\ done("citation")
    /\ \E e \in DOMAIN g.edges : e[1] # e[2]
    /\ \E k \in DOMAIN docs : \E r \in Range(docs[k].references) : r \in OutsideIds

\* ---------------------------------------------------------- ordered dicts
\* d[key] += 1 on a defaultdict(int): a new key goes to the end.
Bump(d, key) ==
    IF \E p \in DOMAIN d : d[p][1] = key
    THEN [p \in DOMAIN d |-> IF d[p][1] = key THEN <<key, d[p][2] + 1>> ELSE d[p]]
    ELSE Append(d, <<key, 1>>)

\* d[key] = v
Put(d, key, v) ==
    IF \E p \in DOMAIN d : d[p][1] = key
    THEN [p \in DOMAIN d |-> IF d[p][1] = key THEN <<key, v>> ELSE d[p]]
    ELSE Append(d, <<key, v>>)

Keys(d) == {d[p][1] : p \in DOMAIN d}
\* d.get(key, 0)
ValueOf(d, key) == IF key \in Keys(d) THEN (CHOOSE e \in Range(d) : e[1] = key)[2] ELSE 0

\* ------------------------------------------------------------- edge pruning
\* Where a stable descending sort puts e among the already sorted s: behind
\* every item whose value is not smaller.
InsertDesc(s, e) ==
    LET before == Cardinality({p \in DOMAIN s : s[p][2] >= e[2]})
    IN  SubSeq(s, 1, before) \o <<e>> \o SubSeq(s, before + 1, Len(s))

\* items.sort(key=lambda p: p[1], reverse=True)
RECURSIVE SortDesc(_)
SortDesc(s) ==
    IF s = <<>> THEN <<>> ELSE InsertDesc(SortDesc(SubSeq(s, 1, Len(s) - 1)), s[Len(s)])

\* if len(edges) > max_edges: edges.sort(...); edges = edges[:max_edges]
Prune(edges, max_edges) ==
    IF Len(edges) > max_edges THEN SubSeq(SortDesc(edges), 1, max_edges) ELSE edges

\* ------------------------------------------------ build_cocitation_network
\* max_edges = max_edges or len(docs) * 2
CocitationMaxEdges(max_edges, ds) ==
    IF max_edges = None \/ max_edges = 0 THEN Len(ds) * 2 ELSE max_edges

\* for i in refs: for j in refs: if i < j: strength[i, j] += 1
\* (t runs over the Len(rs) * Len(rs) iterations of the two loops)
RECURSIVE CountPairs(_, _, _)
CountPairs(d, rs, t) ==
    IF t > Len(rs) * Len(rs) THEN d
    ELSE LET a == rs[((t - 1) \div Len(rs)) + 1]
             b == rs[((t - 1) % Len(rs)) + 1]
         IN  CountPairs(IF a < b THEN Bump(d, <<a, b>>) ELSE d, rs, t + 1)

RECURSIVE CocitationStrength(_, _, _, _)
CocitationStrength(d, ds, m, k) ==
    IF k > Len(ds) THEN d
    ELSE CocitationStrength(CountPairs(d, ResolvedRefs(m, ds[k].references), 1), ds, m, k + 1)

\* g.add_edge(i, j, weight=weight)
WeightedEdges(edges) ==
    [p \in DOMAIN edges |-> <<edges[p][1][1], edges[p][1][2], ("weight" :> edges[p][2])>>]

BuildCocitation ==
    /\ pc = "idle"
    /\ \E max_edges \in {None} \cup 0..MaxEdgesArg :
         LET b == BaseNetwork(docs, FALSE, NoColors, Columns)
             s == CocitationStrength(<<>>, docs, b.mapping, 1)
             kept == Prune(s, CocitationMaxEdges(max_edges, docs))
         IN  /\ g' = AddEdges(b.g, WeightedEdges(kept))
             /\ mapping' = b.mapping
             /\ err' = b.err
             /\ strength' = s
             /\ call' = [NoCall EXCEPT !.name = "cocitation", !.node_props = Columns,
                                       !.max_edges = max_edges]
    /\ pc' = "done"
    /\ UNCHANGED <<docs, n, doc_refs, refs, di, ri, i, resolved>>

InitCocitation == InitRefs(OutsideIds, MaxCitedRefs)
NextCocitation == BuildCocitation
SpecCocitation == InitCocitation /\ [][NextCocitation]_vars

\* The documents whose reference list holds the ids of both node a and node b.
CitingBoth(a, b) ==
    {k \in DOMAIN docs : {docs[a + 1].id, docs[b + 1].id} \subseteq Range(docs[k].references)}

\* C3: build_cocitation_network: for distinct known documents a < b the
\* accumulated strength of the pair, and the weight of the edge {a, b} when it
\* is kept, is the number of documents whose reference list holds both ids; a
\* pair with count 0 has no edge; strengths are keyed by (min, max) only.
C3_CocitationCount ==
    done("cocitation") =>
        LET nodes == 0..(Len(docs) - 1) IN
        /\ \A key \in Keys(strength) : key[1] < key[2]
        /\ \A a \in nodes, b \in nodes :
             a < b =>
               /\ ValueOf(strength, <<a, b>>) = Cardinality(CitingBoth(a, b))
               /\ <<a, b>> \in DOMAIN g.edges =>
                    g.edges[<<a, b>>]["weight"] = Cardinality(CitingBoth(a, b))
               /\ Cardinality(CitingBoth(a, b)) = 0 => <<a, b>> \notin DOMAIN g.edges

\* The weights of the strength items that did not become edges.
Discarded == {e \in Range(strength) : e[1] \notin DOMAIN g.edges}

\* C5: pruning: for a caller-supplied max_edges >= 0 the returned graph has at
\* most max_edges edges, every kept edge weighs at least as much as every
\* discarded one, and a map of at most max_edges entries is kept unchanged.
C5_Pruning ==
    (pc = "done" /\ call.name \in {"cocitation", "coupling"} /\ call.max_edges # None) =>
        /\ Cardinality(DOMAIN g.edges) <= call.max_edges
        /\ \A e \in DOMAIN g.edges : \A x \in Discarded : g.edges[e]["weight"] >= x[2]
        /\ Len(strength) <= call.max_edges =>
             /\ DOMAIN g.edges = {EdgeKey(g, key[1], key[2]) : key \in Keys(strength)}
             /\ \A key \in Keys(strength) :
                  g.edges[EdgeKey(g, key[1], key[2])]["weight"] = ValueOf(strength, key)

\* -------------------------------------------------- build_coupling_network
\* mapping.add(ref, n); n += 1; i = n  -- the value i ends up with, given the
\* n the reference was registered under.
NewRefIndex(registered) == registered + 1

\* The <<i, j>> pairs of  for i, a in enumerate(doc_refs):
\*                          for j, b in enumerate(doc_refs[:i])  in loop order.
CouplingPairs(len) == Concat([a \in 1..len |-> [b \in 1..(a - 1) |-> <<a - 1, b - 1>>]])

\* common = a & b; if common: strength[i, j] = len(common)
RECURSIVE CouplingStrength(_, _, _)
CouplingStrength(d, drefs, pairs) ==
    IF pairs = <<>> THEN d
    ELSE LET common == drefs[pairs[1][1] + 1] \cap drefs[pairs[1][2] + 1]
         IN  CouplingStrength(IF common # {} THEN Put(d, pairs[1], Cardinality(common)) ELSE d,
                              drefs, Tail(pairs))

\* g.add_edge(i, j, weight=weight, score=weight)
ScoredEdges(edges) ==
    [p \in DOMAIN edges |->
        <<edges[p][1][1], edges[p][1][2], ("weight" :> edges[p][2]) @@ ("score" :> edges[p][2])>>]

\* g, mapping = build_base_network(docs, False); n = len(g); doc_refs = []
CouplingStart ==
    /\ pc = "idle"
    /\ \E max_edges \in {DefaultMaxEdges} \cup 0..MaxEdgesArg :
         call' = [NoCall EXCEPT !.name = "coupling", !.node_props = Columns,
                                !.max_edges = max_edges]
    /\ LET b == BaseNetwork(docs, FALSE, NoColors, Columns)
       IN  /\ g' = b.g
           /\ mapping' = b.mapping
           /\ err' = b.err
           /\ n' = Cardinality(DOMAIN b.g.nodes)
    /\ doc_refs' = <<>> /\ refs' = <<>> /\ di' = 1 /\ ri' = 1
    /\ pc' = "scan"
    /\ UNCHANGED <<docs, strength, i, resolved>>

\* One iteration of  for ref in doc.references or []:
CouplingRef ==
    /\ pc = "scan" /\ di <= Len(docs) /\ ri <= Len(docs[di].references)
    /\ LET ref == docs[di].references[ri]
           found == MappingGet(mapping, ref)
       IN  /\ IF found = None
              THEN /\ mapping' = MappingAdd(mapping, ref, n)
                   /\ n' = n + 1
                   /\ i' = NewRefIndex(n)
              ELSE /\ i' = found
                   /\ UNCHANGED <<mapping, n>>
           /\ refs' = Append(refs, i')
           /\ resolved' = resolved \cup {<<ref, i'>>}
    /\ ri' = ri + 1
    /\ UNCHANGED <<docs, pc, call, g, err, strength, doc_refs, di>>

\* doc_refs.append(set(refs)), and on to the next document
CouplingEndDoc ==
    /\ pc = "scan" /\ di <= Len(docs) /\ ri > Len(docs[di].references)
    /\ doc_refs' = Append(doc_refs, Range(refs))
    /\ refs' = <<>> /\ di' = di + 1 /\ ri' = 1
    /\ UNCHANGED <<docs, pc, call, g, mapping, err, strength, n, i, resolved>>

\* The pairwise intersections, the pruning and the edges.
CouplingFinish ==
    /\ pc = "scan" /\ di > Len(docs)
    /\ LET s == CouplingStrength(<<>>, doc_refs, CouplingPairs(Len(doc_refs)))
       IN  /\ strength' = s
           /\ g' = AddEdges(g, ScoredEdges(Prune(s, call.max_edges)))
    /\ pc' = "done"
    /\ UNCHANGED <<docs, call, mapping, err, n, doc_refs, refs, di, ri, i, resolved>>

InitCoupling == InitRefs(CouplingOutsideIds, MaxRefs)
NextCoupling == CouplingStart \/ CouplingRef \/ CouplingEndDoc \/ CouplingFinish
SpecCoupling == InitCoupling /\ [][NextCoupling]_vars

\* The reference ids two documents have in common.
SharedRefs(a, b) == Range(docs[a + 1].references) \cap Range(docs[b + 1].references)

\* C1: build_coupling_network: for distinct documents a, b the strength
\* recorded for the pair is |references(a) \cap references(b)| over reference
\* ids (known or outside), whichever way round the pair is taken, and when it
\* is nonzero and the edge survives pruning the edge {a, b} carries it under
\* both 'weight' and 'score'.
C1_CouplingWeight ==
    done("coupling") =>
        \A a \in 0..(Len(docs) - 1), b \in 0..(Len(docs) - 1) :
            a # b =>
              LET rec == ValueOf(strength, <<Max(a, b), Min(a, b)>>)
                  key == EdgeKey(g, a, b)
              IN  /\ rec = Cardinality(SharedRefs(a, b))
                  /\ ValueOf(strength, <<Min(a, b), Max(a, b)>>) = 0
                  /\ key \in DOMAIN g.edges =>
                       /\ g.edges[key]["weight"] = Cardinality(SharedRefs(a, b))
                       /\ g.edges[key]["score"] = Cardinality(SharedRefs(a, b))

\* C10: during one build_coupling_network call every identifier resolves to
\* one node index at every occurrence: the index appended for a reference is
\* the index the mapping holds for it (so the first, registering occurrence
\* agrees with every later lookup), and distinct identifiers never resolve to
\* the same index.
C10_StableIndices ==
    call.name = "coupling" =>
        /\ \A r \in resolved : r[1] \in DOMAIN mapping /\ mapping[r[1]] = r[2]
        /\ \A r \in resolved, q \in resolved : r[2] = q[2] => r[1] = q[1]
        /\ \A x \in DOMAIN mapping, y \in DOMAIN mapping : mapping[x] = mapping[y] => x = y

\* -------------------------------------------------- build_coauthor_network
\* if name:
NameOk(name) == name # ""

\* [a.name for a in doc.authors or [] if a.name]
AuthorNames(doc) ==
    SelectSeq([p \in DOMAIN doc.authors |-> doc.authors[p].name], NameOk)

\* count[name] += 1 for every named author of every document
RECURSIVE BumpAll(_, _)
BumpAll(d, keys) == IF keys = <<>> THEN d ELSE BumpAll(Bump(d, keys[1]), Tail(keys))

AuthorCount(ds) == BumpAll(<<>>, Concat([k \in DOMAIN ds |-> AuthorNames(ds[k])]))

TopAuthorsUnsorted(count, max_authors) ==
    LET authors == [p \in DOMAIN count |-> count[p][1]]
    IN  IF max_authors # None /\ Len(authors) > max_authors
        THEN SubSeq(authors, 1, max_authors)
        ELSE authors

\* authors = list(count.keys())
\* if max_authors is not None and len(authors) > max_authors:
\*     authors.sort(key=lambda name: count[name], reverse=True)
\*     authors = authors[:max_authors]
TopAuthors(count, max_authors) ==
    LET authors == [p \in DOMAIN count |-> count[p][1]]
        sorted == SortDesc(count)
    IN  IF max_authors # None /\ Len(authors) > max_authors
        THEN [p \in 1..max_authors |-> sorted[p][1]]
        ELSE authors

\* for i, author in enumerate(authors): g.add_node(i, title=author); mapping[author] = i
RECURSIVE AddAuthorNodes(_, _, _)
AddAuthorNodes(gr, authors, k) ==
    IF k > Len(authors) THEN gr
    ELSE AddAuthorNodes(AddNode(gr, k - 1, ("title" :> authors[k])), authors, k + 1)

AuthorMapping(authors) == [a \in Range(authors) |-> CHOOSE k \in 0..(Len(authors) - 1) : authors[k + 1] = a]

\* The (left, right) pairs of  for i, left in enumerate(authors):
\*                               for right in authors[:i]  in loop order.
AuthorPairs(authors) ==
    Concat([a \in DOMAIN authors |-> [b \in 1..(a - 1) |-> <<authors[a], authors[b]>>]])

\* if left in mapping and right in mapping: edges[mapping[left], mapping[right]] += 1
RECURSIVE CountCoauthors(_, _, _)
CountCoauthors(d, m, pairs) ==
    IF pairs = <<>> THEN d
    ELSE CountCoauthors(IF pairs[1][1] \in DOMAIN m /\ pairs[1][2] \in DOMAIN m
                        THEN Bump(d, <<m[pairs[1][1]], m[pairs[1][2]]>>)
                        ELSE d,
                        m, Tail(pairs))

CoauthorEdges(ds, m) ==
    CountCoauthors(<<>>, m, Concat([k \in DOMAIN ds |-> AuthorPairs(AuthorNames(ds[k]))]))

\* g = nx.DiGraph()
CoauthorDirected == TRUE

BuildCoauthor ==
    /\ pc = "idle"
    /\ \E max_authors \in {None} \cup 0..MaxAuthorsArg :
         LET authors == TopAuthors(AuthorCount(docs), max_authors)
             m == AuthorMapping(authors)
             edges == CoauthorEdges(docs, m)
         IN  /\ g' = AddEdges(AddAuthorNodes(EmptyGraph(CoauthorDirected), authors, 1),
                              WeightedEdges(edges))
             /\ mapping' = m
             /\ strength' = edges
             /\ call' = [NoCall EXCEPT !.name = "coauthor", !.directed = CoauthorDirected,
                                       !.max_authors = max_authors]
    /\ err' = "none"
    /\ pc' = "done"
    /\ UNCHANGED <<docs, n, doc_refs, refs, di, ri, i, resolved>>

InitCoauthor ==
    /\ \E nd \in 0..MaxDocs :
         \E au \in [1..nd -> SeqsUpTo([name : Names], MaxAuthors)] :
           docs = [k \in 1..nd |-> Document(k - 1, <<>>, au[k], DefaultData)]
    /\ Locals
NextCoauthor == BuildCoauthor
SpecCoauthor == InitCoauthor /\ [][NextCoauthor]_vars

\* The names on a document, the named authors of the set, how often a name
\* occurs, and the documents that list both of two names.
NamesOn(k) == {docs[k].authors[p].name : p \in DOMAIN docs[k].authors}
Named == (UNION {NamesOn(k) : k \in DOMAIN docs}) \ {""}
Occurrences(a) ==
    Cardinality({kp \in UNION {{<<k, p>> : p \in DOMAIN docs[k].authors} : k \in DOMAIN docs} :
                    docs[kp[1]].authors[kp[2]].name = a})
SharedDocs(a, b) == {k \in DOMAIN docs : {a, b} \subseteq NamesOn(k)}
Titles == {g.nodes[v]["title"] : v \in DOMAIN g.nodes}

\* C2: build_coauthor_network: for distinct retained authors a, b the weight of
\* the connection between a and b is the number of documents listing both,
\* whatever the order of the two names in each author list; pairs that never
\* co-appear have no edge.
C2_CoauthorWeight ==
    done("coauthor") =>
        \A a \in DOMAIN mapping, b \in DOMAIN mapping :
            a # b =>
              LET between == {<<mapping[a], mapping[b]>>, <<mapping[b], mapping[a]>>}
                                \cap DOMAIN g.edges
              IN  /\ \A e \in between : g.edges[e]["weight"] = Cardinality(SharedDocs(a, b))
                  /\ (between = {}) <=> (SharedDocs(a, b) = {})

\* C4: no graph a builder returns has an edge from a node to itself.
C4_NoSelfLoops ==
    pc = "done" => \A e \in DOMAIN g.edges : e[1] # e[2]

\* C7: build_coauthor_network nodes: no node for an empty name; when
\* max_authors is set and exceeded by the number of distinct named authors the
\* graph has exactly max_authors nodes and every retained author occurs at
\* least as often as every excluded one; otherwise every distinct named author
\* has exactly one node; excluded authors are in no node and no edge.
C7_CoauthorNodes ==
    done("coauthor") =>
        /\ DOMAIN g.nodes = 0..(Cardinality(DOMAIN g.nodes) - 1)
        /\ \A v \in DOMAIN g.nodes : DOMAIN g.nodes[v] = {"title"}
        /\ "" \notin Titles
        /\ Titles \subseteq Named
        /\ Cardinality(Titles) = Cardinality(DOMAIN g.nodes)
        /\ IF call.max_authors # None /\ Cardinality(Named) > call.max_authors
           THEN /\ Cardinality(DOMAIN g.nodes) = call.max_authors
                /\ \A r \in Titles, x \in Named \ Titles : Occurrences(r) >= Occurrences(x)
           ELSE Titles = Named
        /\ \A e \in DOMAIN g.edges : e[1] \in DOMAIN g.nodes /\ e[2] \in DOMAIN g.nodes

\* Truncation happened and dropped a rarer author who shares a document with a
\* retained one, and a document lists an author without a name.
C7_Witness ==
    /\ done("coauthor")
    /\ call.max_authors # None /\ call.max_authors >= 1
    /\ Cardinality(Named) > call.max_authors
    /\ \E r \in Titles, x \in Named \ Titles :
          Occurrences(r) > Occurrences(x) /\ SharedDocs(r, x) # {}
    /\ \E k \in DOMAIN docs : "" \in NamesOn(k)

\* ------------------------------------------- build_base_network, directly
ColorArgs ==
    {NoColors}
      \cup {[kind |-> "column", name |-> c, seq |-> <<>>] : c \in Columns}
      \cup {[kind |-> "seq", name |-> "", seq |-> cs] : cs \in SeqsUpTo(ColorValues, MaxColors)}

\* node_props=None stands for docs.data.columns
BuildBase ==
    /\ pc = "idle"
    /\ \E directed \in BOOLEAN, colors \in ColorArgs, node_props \in {Columns, {}} :
         LET b == BaseNetwork(docs, directed, colors, node_props)
         IN  /\ g' = b.g
             /\ mapping' = b.mapping
             /\ err' = b.err
             /\ call' = [NoCall EXCEPT !.name = "base", !.directed = directed,
                                       !.colors = colors, !.node_props = node_props]
    /\ pc' = "done"
    /\ UNCHANGED <<docs, strength, n, doc_refs, refs, di, ri, i, resolved>>

InitBase ==
    /\ \E nd \in 0..MaxDocs :
         \E da \in [1..nd -> [Columns -> ColorValues]] :
           docs = [k \in 1..nd |-> Document(k - 1, <<>>, <<>>, da[k])]
    /\ Locals
NextBase == BuildBase
SpecBase == InitBase /\ [][NextBase]_vars

\* colors is an explicit sequence whose length is not the number of documents.
Mismatched == call.colors.kind = "seq" /\ Len(call.colors.seq) # Len(docs)

\* C8 as stated: an explicit colour sequence of the wrong length makes
\* build_base_network fail with a precondition violation, for every document
\* count, zero included.
C8_MismatchFailsAlways ==
    (done("base") /\ Mismatched) => err = "AssertionError"

\* C8 as amended: on a non-empty document set an explicit colour sequence of
\* the wrong length makes build_base_network fail with an AssertionError and
\* no graph is returned; on an empty document set colors is ignored and the
\* empty graph is returned.
C8_MismatchFailsNonEmpty ==
    (done("base") /\ Mismatched) =>
        IF Len(docs) > 0
        THEN err = "AssertionError" /\ DOMAIN g.nodes = {}
        ELSE err = "none" /\ DOMAIN g.nodes = {} /\ DOMAIN g.edges = {}

\* Mismatches in both directions on a non-empty set: too long, and too short.
C8_Witness ==
    /\ done("base") /\ Mismatched
    /\ Len(docs) = MaxDocs
    /\ Len(call.colors.seq) \in {Len(docs) - 1, Len(docs) + 1}
    /\ err = "AssertionError"

\* The colour values the call works on.
Supplied == ColorsOf(docs, call.colors)

\* C9: numeric colouring with all values identical (min == max) is guarded:
\* the call completes and gives every node a colour.
C9_EqualValuesGuarded ==
    (/\ done("base")
     /\ call.colors.kind # "none" /\ Len(docs) > 0 /\ Len(Supplied) = Len(docs)
     /\ AllFloat(Supplied)
     /\ \A c \in Range(Supplied), d \in Range(Supplied) : c[2] = d[2])
    => /\ err = "none"
       /\ \A v \in DOMAIN g.nodes : "color" \in DOMAIN g.nodes[v]

====
